---- MODULE Spec2Model ----
(***************************************************************************)
(* Model of scripts/play-log-file.py: the replay of a CAN log (CSV) onto a *)
(* bus, one row at a time, each row's frame sent no sooner than its        *)
(* capture time relative to the first parsed row.                          *)
(*                                                                         *)
(* Texts are sequences of one-character strings, so that int(), int(.,16)  *)
(* and .lower() are computed character by character.  Time is counted in   *)
(* microseconds on both sides: `ts` is the row's "Time Stamp" and `clock`  *)
(* is what time.time() returns, both in the same unit (the script divides  *)
(* the stamp by 1e6 to meet time.time()'s seconds; floating-point rounding *)
(* is not modelled).                                                       *)
(***************************************************************************)
EXTENDS Integers, Sequences, FiniteSets, TLC

\* ---------------------------------------------------------------- bounds
MaxRows == 3       \* rows in the log file
MaxTs == 2         \* largest ordinary "Time Stamp" sampled
MaxClock == 2      \* the wall clock advances freely up to here
NumD == 3          \* data columns D1..D(NumD) in the CSV header
HugeTs == 99       \* a "Time Stamp" far beyond what time.sleep accepts
SleepLimit == 50   \* longest duration time.sleep accepts (OverflowError above)

\* ----------------------------------------------------------------- texts
Missing == <<"None">>      \* csv.DictReader's restval for a short row
Unset == <<>>              \* Python None for start_ts / start_time

DecChars == <<"0","1","2","3","4","5","6","7","8","9">>
HexLowerChars == DecChars \o <<"a","b","c","d","e","f">>
UpperChars == <<"A","B","C","D","E","F","T","R","U","L","S">>
LowerChars == <<"a","b","c","d","e","f","t","r","u","l","s">>

\* str.lower() on one character
LowerChar(c) ==
  IF \E i \in 1..Len(UpperChars) : UpperChars[i] = c
  THEN LowerChars[CHOOSE i \in 1..Len(UpperChars) : UpperChars[i] = c]
  ELSE c

\* str.lower()
Lower(s) == [i \in 1..Len(s) |-> LowerChar(s[i])]

IsDigit(c, base) ==
  \E i \in 1..base : HexLowerChars[i] = LowerChar(c)

DigitValue(c) ==
  (CHOOSE i \in 1..Len(HexLowerChars) : HexLowerChars[i] = LowerChar(c)) - 1

\* int(text) / int(text, 16) succeeds: a non-empty run of digits of the base
\* (None gives TypeError, anything else ValueError; sign, blanks, "0x" and
\* "_" are not among the sampled texts)
IntOkEmpty(text, base) ==
  /\ text # Missing
  /\ \A i \in 1..Len(text) : IsDigit(text[i], base)

IntOk(text, base) ==
  /\ text # Missing
  /\ Len(text) > 0
  /\ \A i \in 1..Len(text) : IsDigit(text[i], base)

RECURSIVE IntVal(_, _)
IntVal(text, base) ==
  IF Len(text) = 0 THEN 0
  ELSE IntVal(SubSeq(text, 1, Len(text) - 1), base) * base
       + DigitValue(text[Len(text)])

\* truth value of a field: None and "" are falsy
Truthy(text) == text # Missing /\ text # <<>>

\* lines 27-31: the payload loop, from position i with acc collected so far
RECURSIVE PayloadLoopOffByOne(_, _, _, _)
PayloadLoopOffByOne(r, i, n, acc) ==
  IF i > n - 1 THEN [ok |-> TRUE, bytes |-> acc]
  ELSE IF i > NumD THEN [ok |-> FALSE, bytes |-> acc]
  ELSE IF Truthy(r.d[i])
       THEN IF IntOk(r.d[i], 16)
            THEN PayloadLoopOffByOne(r, i + 1, n, Append(acc, IntVal(r.d[i], 16)))
            ELSE [ok |-> FALSE, bytes |-> acc]
       ELSE PayloadLoopOffByOne(r, i + 1, n, acc)

RECURSIVE PayloadLoop(_, _, _, _)
PayloadLoop(r, i, n, acc) ==
  IF i > n THEN [ok |-> TRUE, bytes |-> acc]
  ELSE IF i > NumD THEN [ok |-> FALSE, bytes |-> acc]              \* KeyError
  ELSE IF Truthy(r.d[i])
       THEN IF IntOk(r.d[i], 16)
            THEN PayloadLoop(r, i + 1, n, Append(acc, IntVal(r.d[i], 16)))
            ELSE [ok |-> FALSE, bytes |-> acc]                      \* ValueError
       ELSE PayloadLoop(r, i + 1, n, acc)

\* lines 22-31: the step that raises ("none" when the row parses)
ParseFailure(r) ==
  IF ~IntOk(r.ts, 10) THEN "ts"
  ELSE IF ~IntOk(r.id, 16) THEN "id"
  ELSE IF ~IntOk(r.len, 10) THEN "len"
  ELSE IF r.ext = Missing THEN "ext"                                \* None.lower()
  ELSE IF ~PayloadLoop(r, 1, IntVal(r.len, 10), <<>>).ok THEN "data"
  ELSE "none"

\* line 25
IsExtended(text) == Lower(text) = <<"t","r","u","e">>

\* line 43: bytes(data_bytes) raises ValueError unless every value is a byte
BytesOk(bs) == \A i \in 1..Len(bs) : bs[i] \in 0..255

\* lines 38-39
WaitTimeNoElapsed(t, sts, n, stime) == t - sts

WaitTimeFlipped(t, sts, n, stime) == (n - stime) - (t - sts)

WaitTimeEarly(t, sts, n, stime) == (t - sts) - (n - stime) - 1

WaitTime(t, sts, n, stime) == (t - sts) - (n - stime)

\* line 33
BaselineAlways(sts) == TRUE

NeedBaseline(sts) == sts = Unset

\* lines 21/46: the steps of a row that lie inside the try block
CaughtParseOnly(step) == step \in {"ts", "id", "len", "ext", "data"}

Caught(step) ==
  step \in {"ts", "id", "len", "ext", "data", "sleep", "build", "send"}

\* line 44-45: where control goes after bus.send returned or raised
AfterSendAlways(ok) == "print"

AfterSend(ok) == IF ok THEN "print" ELSE "raise"

\* ------------------------------------------------------------- the inputs
RECURSIVE Dec(_)
Dec(n) == IF n < 10 THEN <<DecChars[n + 1]>>
          ELSE Dec(n \div 10) \o <<DecChars[(n % 10) + 1]>>

MkRow(t, id, len, ext, d) == [ts |-> t, id |-> id, len |-> len, ext |-> ext, d |-> d]

PadD(d) == d \o [i \in 1..(NumD - Len(d)) |-> <<>>]

GoodD == PadD(<<<<"0","A">>, <<>>, <<"F","f">>>>)

GoodRow(t) == MkRow(t, <<"1","a","F">>, <<"3">>, <<"T","r","u","e">>, GoodD)

\* rows of the replay specification: rows that parse, at every sampled stamp,
\* and one row for each step that can raise
ValidRows == {GoodRow(Dec(n)) : n \in 0..MaxTs} \cup {GoodRow(Dec(HugeTs))}

BadByteRows ==
  {MkRow(Dec(n), <<"7">>, <<"1">>, <<"F","a","l","s","e">>, PadD(<<<<"1","F","F">>>>))
     : n \in 0..1}

MalformedRows ==
  { [GoodRow(<<"0">>) EXCEPT !.ts = <<"x">>],
    [GoodRow(<<"0">>) EXCEPT !.id = <<"z","z">>],
    [GoodRow(<<"1">>) EXCEPT !.id = <<>>],
    [GoodRow(<<"0">>) EXCEPT !.len = Missing],
    [GoodRow(<<"0">>) EXCEPT !.ext = Missing],
    [GoodRow(<<"0">>) EXCEPT !.d[1] = <<"G">>],
    [GoodRow(<<"0">>) EXCEPT !.len = Dec(NumD + 1)] }

\* rows that parse, hold bytes only, and whose stamps are within sleeping range
OrdinaryRows == {GoodRow(Dec(n)) : n \in 0..MaxTs}

RowSet == ValidRows \cup BadByteRows \cup MalformedRows

NoRow == MkRow(<<>>, <<>>, <<>>, <<>>, PadD(<<>>))

\* ------------------------------------------------------------------ state
VARIABLES
  pc,           \* position in the script
  nrows,        \* number of rows in the file
  idx,          \* rows handed out by the reader so far
  row,          \* the current row
  start_ts, start_time,                 \* lines 15-16: the baseline pair
  ts, canid, dlc, is_extended, data_bytes, now, wait_time, msg,   \* locals
  wake,         \* when the pending time.sleep may return
  clock,        \* the wall clock
  sent,         \* frames handed to bus.send, in order
  last,         \* wall-clock time and stamp of the latest bus.send
  ordered,      \* the stamps of the frames sent so far never decreased
  console,      \* console lines, in order
  failed,       \* the step of the current row that raised ("none" if none)
  slept,        \* time.sleep was entered for the current row
  base0,        \* the baseline pair when the current row was read
  parsed,       \* some row has passed lines 22-31
  writes,       \* how many times lines 34-35 ran
  allOrdinary,  \* every row read so far is an OrdinaryRow
  outcome       \* per finished row: "sent", "sendfail" or "skipped"

vars == <<pc, nrows, idx, row, start_ts, start_time, ts, canid, dlc,
          is_extended, data_bytes, now, wait_time, msg, wake, clock, sent,
          last, ordered, console, failed, slept, base0, parsed, writes,
          allOrdinary, outcome>>

locals == <<ts, canid, dlc, is_extended, data_bytes, now, wait_time, msg, wake>>
baseline == <<start_ts, start_time>>
history == <<sent, last, ordered, console, outcome>>
flags == <<parsed, writes, allOrdinary>>

NoMsg == [id |-> 0, data |-> <<>>, ext |-> FALSE]

\* the locals are dead once the row is done: each is assigned before it is
\* read in the next iteration
ClearLocals ==
  /\ ts' = 0 /\ canid' = 0 /\ dlc' = 0 /\ is_extended' = FALSE
  /\ data_bytes' = <<>> /\ now' = 0 /\ wait_time' = 0 /\ msg' = NoMsg
  /\ wake' = 0

Init ==
  /\ pc = "loop"
  /\ nrows \in 0..MaxRows
  /\ idx = 0
  /\ row = NoRow
  /\ start_ts = Unset /\ start_time = Unset
  /\ ts = 0 /\ canid = 0 /\ dlc = 0 /\ is_extended = FALSE
  /\ data_bytes = <<>> /\ now = 0 /\ wait_time = 0 /\ msg = NoMsg /\ wake = 0
  /\ clock = 0
  /\ sent = <<>> /\ console = <<>> /\ outcome = <<>>
  /\ last = Unset /\ ordered = TRUE
  /\ failed = "none" /\ slept = FALSE
  /\ base0 = <<Unset, Unset>>
  /\ parsed = FALSE /\ writes = 0 /\ allOrdinary = TRUE

\* an exception raised at `step`: into the handler when the try covers it
Raise(step) ==
  /\ pc' = IF Caught(step) THEN "except" ELSE "abort"
  /\ failed' = step

\* line 20: the reader yields the next row
ReadRow ==
  /\ pc = "loop" /\ idx < nrows
  /\ \E r \in RowSet :
       /\ row' = r
       /\ allOrdinary' = (allOrdinary /\ r \in OrdinaryRows)
  /\ idx' = idx + 1
  /\ pc' = "parse"
  /\ failed' = "none" /\ slept' = FALSE
  /\ base0' = <<start_ts, start_time>>
  /\ UNCHANGED <<nrows, baseline, locals, clock, history, parsed, writes>>

\* line 20: the reader is exhausted
EndOfInput ==
  /\ pc = "loop" /\ idx = nrows
  /\ pc' = "done"
  /\ UNCHANGED <<nrows, idx, row, baseline, locals, clock, history, failed,
                 slept, base0, flags>>

\* lines 22-31
ParseRow ==
  /\ pc = "parse"
  /\ LET f == ParseFailure(row) IN
     IF f # "none"
     THEN /\ Raise(f)
          /\ UNCHANGED <<locals, parsed>>
     ELSE /\ ts' = IntVal(row.ts, 10)
          /\ canid' = IntVal(row.id, 16)
          /\ dlc' = IntVal(row.len, 10)
          /\ is_extended' = IsExtended(row.ext)
          /\ data_bytes' = PayloadLoop(row, 1, IntVal(row.len, 10), <<>>).bytes
          /\ pc' = "baseline"
          /\ parsed' = TRUE
          /\ UNCHANGED <<now, wait_time, msg, wake, failed>>
  /\ UNCHANGED <<nrows, idx, row, baseline, clock, history, slept, base0,
                 writes, allOrdinary>>

\* lines 33-35
SetBaseline ==
  /\ pc = "baseline"
  /\ IF NeedBaseline(start_ts)
     THEN start_ts' = <<ts>> /\ start_time' = <<clock>> /\ writes' = writes + 1
     ELSE UNCHANGED <<baseline, writes>>
  /\ pc' = "now"
  /\ UNCHANGED <<nrows, idx, row, locals, clock, history, failed, slept, base0,
                 parsed, allOrdinary>>

\* lines 37-40
ComputeWait ==
  /\ pc = "now"
  /\ now' = clock
  /\ wait_time' = WaitTime(ts, start_ts[1], clock, start_time[1])
  /\ pc' = IF wait_time' > 0 THEN "sleep" ELSE "build"
  /\ UNCHANGED <<nrows, idx, row, baseline, ts, canid, dlc, is_extended,
                 data_bytes, msg, wake, clock, history, failed, slept, base0,
                 flags>>

\* line 41: time.sleep is entered, or refuses the duration
Sleep ==
  /\ pc = "sleep"
  /\ IF wait_time > SleepLimit
     THEN /\ Raise("sleep")
          /\ UNCHANGED <<wake, slept>>
     ELSE /\ wake' = clock + wait_time
          /\ slept' = TRUE
          /\ pc' = "sleeping"
          /\ UNCHANGED failed
  /\ UNCHANGED <<nrows, idx, row, baseline, ts, canid, dlc, is_extended,
                 data_bytes, now, wait_time, msg, clock, history, base0, flags>>

\* line 41: time.sleep returns, no sooner than asked
Wake ==
  /\ pc = "sleeping" /\ clock >= wake
  /\ pc' = "build"
  /\ UNCHANGED <<nrows, idx, row, baseline, locals, clock, history, failed,
                 slept, base0, flags>>

\* line 43
BuildMessage ==
  /\ pc = "build"
  /\ IF BytesOk(data_bytes)
     THEN /\ msg' = [id |-> canid, data |-> data_bytes, ext |-> is_extended]
          /\ pc' = "send"
          /\ UNCHANGED failed
     ELSE /\ Raise("build")
          /\ UNCHANGED msg
  /\ UNCHANGED <<nrows, idx, row, baseline, ts, canid, dlc, is_extended,
                 data_bytes, now, wait_time, wake, clock, history, slept, base0,
                 flags>>

\* line 44: the frame is handed to the bus, which sends it or raises
Send ==
  /\ pc = "send"
  /\ \E ok \in BOOLEAN :
       /\ sent' = Append(sent, [row |-> idx, msg |-> msg, ok |-> ok])
       /\ last' = <<[time |-> clock, ts |-> ts]>>
       /\ ordered' = (ordered /\ (last = Unset \/ last[1].ts <= ts))
       /\ IF AfterSend(ok) = "print"
          THEN pc' = "print" /\ UNCHANGED failed
          ELSE Raise("send")
  /\ UNCHANGED <<nrows, idx, row, baseline, locals, clock, console, outcome,
                 slept, base0, flags>>

\* line 45
EmitSent ==
  /\ pc = "print"
  /\ console' = Append(console, [kind |-> "Sent", row |-> idx])
  /\ outcome' = Append(outcome, "sent")
  /\ pc' = "loop"
  /\ ClearLocals
  /\ UNCHANGED <<nrows, idx, row, baseline, clock, sent, last, ordered, failed,
                 slept, base0, flags>>

\* lines 46-47
Handler ==
  /\ pc = "except"
  /\ console' = Append(console, [kind |-> "Skip", row |-> idx])
  /\ outcome' = Append(outcome, IF failed = "send" THEN "sendfail" ELSE "skipped")
  /\ pc' = "loop"
  /\ ClearLocals
  /\ UNCHANGED <<nrows, idx, row, baseline, clock, sent, last, ordered, failed,
                 slept, base0, flags>>

\* the wall clock advances on its own; a pending sleep always gets to its end.
\* The clock is read at lines 35, 37, 41 and at the send (line 44) only: an
\* advance anywhere else is an advance just before the next of these.
Tick ==
  /\ pc \in {"baseline", "now", "sleep", "sleeping", "send"}
  /\ \/ clock < MaxClock
     \/ pc = "sleeping" /\ clock < wake
  /\ clock' = clock + 1
  /\ UNCHANGED <<pc, nrows, idx, row, baseline, locals, history, failed,
                 slept, base0, flags>>

Next ==
  \/ ReadRow \/ EndOfInput \/ ParseRow \/ SetBaseline \/ ComputeWait
  \/ Sleep \/ Wake \/ BuildMessage \/ Send \/ EmitSent \/ Handler \/ Tick

Spec == Init /\ [][Next]_vars

\* ------------------------------------------- the parse alone, on wide rows
DTexts == { <<>>, Missing, <<"0","A">>, <<"F","f">>, <<"1","F","F">>, <<"G">> }
LenTexts == {Dec(n) : n \in 0..(NumD + 1)}
ExtTexts == { <<"T","r","u","e">>, <<"T","R","U","E">>, <<"F","a","l","s","e">>, Missing }

ParseRows ==
  {MkRow(<<"1">>, <<"1","a","F">>, l, e, d) :
     l \in LenTexts, e \in ExtTexts, d \in [1..NumD -> DTexts]}

InitParse ==
  /\ pc = "parse"
  /\ nrows = 1
  /\ idx = 1
  /\ row \in ParseRows
  /\ start_ts = Unset /\ start_time = Unset
  /\ ts = 0 /\ canid = 0 /\ dlc = 0 /\ is_extended = FALSE
  /\ data_bytes = <<>> /\ now = 0 /\ wait_time = 0 /\ msg = NoMsg /\ wake = 0
  /\ clock = 0
  /\ sent = <<>> /\ console = <<>> /\ outcome = <<>>
  /\ last = Unset /\ ordered = TRUE
  /\ failed = "none" /\ slept = FALSE
  /\ base0 = <<Unset, Unset>>
  /\ parsed = FALSE /\ writes = 0 /\ allOrdinary = FALSE

SpecParse == InitParse /\ [][ParseRow]_vars

\* ------------------------------------------------------------ the claims
Tolerance == 1     \* the fixed scheduling tolerance of the gap claim

\* the wall-clock time at which a row stamped t is due
Due(t) == start_time[1] + (t - start_ts[1])

SentRows == {sent[i].row : i \in 1..Len(sent)}
SentOkRows == {sent[i].row : i \in {j \in 1..Len(sent) : sent[j].ok}}

\* C1: no frame is handed to bus.send before start_time + (ts - start_ts),
\* whatever the rows before it and however the wall clock advanced.
C1_NeverSentEarly ==
  last # Unset => /\ start_ts # Unset
                  /\ last[1].time >= Due(last[1].ts)

\* a row that slept has just been sent, exactly when due, after an earlier send
C1_Witness ==
  /\ pc = "print" /\ slept /\ Len(sent) >= 2
  /\ last[1].time = Due(last[1].ts)
  /\ last[1].ts > start_ts[1]

\* C2 as stated: in a log of valid rows with non-decreasing stamps, each frame
\* is sent at least (stamp difference - Tolerance) after the frame before it,
\* however late that earlier frame was.
C2_GapAtLeastCaptureGap ==
  [][ ( /\ sent' # sent
        /\ last # Unset
        /\ allOrdinary /\ ordered'
        /\ sent'[Len(sent')].ok
        /\ \A k \in 1..Len(outcome) : outcome[k] = "sent" )
      => last'[1].time - last[1].time >= (last'[1].ts - last[1].ts) - Tolerance ]_vars

\* C2 amended: the gap is at least (stamp difference - Tolerance) for every pair
\* of consecutive sends whose earlier frame went out within Tolerance of its own
\* due time.
C2_GapAfterTimelySend ==
  [][ ( /\ sent' # sent
        /\ last # Unset
        /\ last[1].time <= Due(last[1].ts) + Tolerance )
      => last'[1].time - last[1].time >= (last'[1].ts - last[1].ts) - Tolerance ]_vars

\* the second of two consecutive frames of valid rows went out when due, after
\* a sleep, its stamp later than the first's
C2_Witness ==
  /\ pc = "print" /\ slept /\ idx >= 2 /\ allOrdinary /\ ordered
  /\ \A k \in 1..Len(outcome) : outcome[k] = "sent"
  /\ last[1].time = Due(last[1].ts)
  /\ wait_time > 0

C4_SkippedRowLeavesBaseline ==
  pc = "except" => /\ <<start_ts, start_time>> = base0
                   /\ idx \notin SentOkRows

\* a text that is no hexadecimal number: absent, empty, or with a foreign character
HexCharSet ==
  {"0","1","2","3","4","5","6","7","8","9",
   "a","b","c","d","e","f","A","B","C","D","E","F"}

InvalidHexText(text) ==
  \/ text = Missing
  \/ text = <<>>
  \/ \E i \in 1..Len(text) : text[i] \notin HexCharSet

\* C5: a row with an invalid hexadecimal ID never gets past the parse: no frame,
\* no Sent line, a Skip line, and the baseline pair untouched (unset if it was
\* unset); the row that parses while the baseline is unset establishes it.
C5_InvalidIdSkipped ==
  /\ (idx >= 1 /\ InvalidHexText(row.id)) =>
       /\ pc \in {"parse", "except", "loop", "done"}
       /\ <<start_ts, start_time>> = base0
       /\ idx \notin SentRows
       /\ pc \in {"loop", "done"} => console[idx].kind = "Skip"
  /\ (pc \in {"now", "sleep", "sleeping", "build", "send", "print"}
        /\ base0[1] = Unset) =>
       /\ start_ts = <<ts>>
       /\ start_time # Unset

\* a first row whose only fault is its ID has been skipped: a Skip line, no
\* frame, the baseline still unset
C5_Witness ==
  /\ idx = 1 /\ pc = "loop"
  /\ InvalidHexText(row.id) /\ failed = "id"
  /\ console = <<[kind |-> "Skip", row |-> 1]>>
  /\ sent = <<>>
  /\ start_ts = Unset /\ start_time = Unset

\* C6: the baseline pair is written exactly once, by the first row that parses,
\* both fields together, and no later row changes either.
C6_BaselineWrittenOnce ==
  /\ writes <= 1
  /\ (start_ts = Unset) = (start_time = Unset)
  /\ (start_ts = Unset) = (writes = 0)
  /\ pc # "baseline" => (parsed = (writes = 1))
  /\ base0[1] # Unset => <<start_ts, start_time>> = base0
  /\ (pc = "now" /\ base0[1] = Unset) =>
       start_ts = <<ts>> /\ start_time # Unset /\ start_time[1] <= clock

\* the run is over, a row was skipped before the baseline was set, and two
\* later rows parsed
C6_Witness ==
  /\ pc = "done" /\ nrows = 3 /\ writes = 1
  /\ outcome[1] = "skipped" /\ outcome[2] # "skipped" /\ outcome[3] # "skipped"

\* C7: no sleep is entered during the row whose frame is the first one handed to
\* bus.send.
C7_FirstSentNeverSleeps ==
  (Len(sent) = 1 /\ sent[1].row = idx) => ~slept

\* C8: frames go to the bus in file order, one per row that reached the send;
\* Sent lines are those whose send succeeded; each row gives one console line;
\* three ordinary rows on a working bus give three Sent lines in row order.
C8_FileOrderNoLossNoDuplicate ==
  /\ \A i, j \in 1..Len(sent) : i < j => sent[i].row < sent[j].row
  /\ \A k \in 1..Len(outcome) :
       /\ (k \in SentRows) = (outcome[k] \in {"sent", "sendfail"})
       /\ (k \in SentOkRows) = (outcome[k] = "sent")
       /\ console[k].row = k
       /\ (console[k].kind = "Sent") = (k \in SentOkRows)
       /\ console[k].kind \in {"Sent", "Skip"}
  /\ Len(console) = Len(outcome)
  /\ Len(outcome) = IF pc \in {"loop", "done"} THEN idx ELSE idx - 1
  /\ \A i \in 1..Len(sent) :
       sent[i].row = idx /\ pc \in {"print", "except"} =>
         sent[i].msg = [id |-> canid, data |-> data_bytes, ext |-> is_extended]
  /\ (pc = "done" /\ nrows = 3 /\ allOrdinary
        /\ \A i \in 1..Len(sent) : sent[i].ok) =>
       console = [k \in 1..3 |-> [kind |-> "Sent", row |-> k]]

\* three ordinary rows were replayed on a working bus
C8_Witness ==
  /\ pc = "done" /\ nrows = 3 /\ allOrdinary
  /\ Len(sent) = 3 /\ \A i \in 1..3 : sent[i].ok
  /\ console = [k \in 1..3 |-> [kind |-> "Sent", row |-> k]]

\* the value of a hexadecimal text, by positional weight
RECURSIVE Pow16(_)
Pow16(n) == IF n = 0 THEN 1 ELSE 16 * Pow16(n - 1)

RECURSIVE WeightedSum(_, _)
WeightedSum(text, i) ==
  IF i > Len(text) THEN 0
  ELSE DigitValue(text[i]) * Pow16(Len(text) - i) + WeightedSum(text, i + 1)

Populated(r, n) == {k \in 1..n : r.d[k] # <<>> /\ r.d[k] # Missing}

\* C9: the payload of a parsed row is the values of the non-empty fields among
\* D1..D(LEN), in increasing position; empty fields are left out, fields beyond
\* LEN are never read, and the length is between 0 and LEN.
C9_PayloadIsPopulatedFields ==
  LET n == IntVal(row.len, 10) IN
  /\ pc = "baseline" =>
       /\ dlc = n /\ n <= NumD
       /\ Len(data_bytes) = Cardinality(Populated(row, n))
       /\ Len(data_bytes) <= n
       /\ \E f \in [1..Len(data_bytes) -> Populated(row, n)] :
            /\ \A i, j \in 1..Len(data_bytes) : i < j => f[i] < f[j]
            /\ \A i \in 1..Len(data_bytes) :
                 data_bytes[i] = WeightedSum(row.d[f[i]], 1)
  /\ (pc = "except" /\ failed = "data") =>
       \/ n > NumD
       \/ \E k \in Populated(row, n) :
            \E i \in 1..Len(row.d[k]) : ~IsDigit(row.d[k][i], 16)

\* LEN=3 with D1 and D3 populated and D2 empty gave the two bytes of D1 and D3
C9_Witness ==
  /\ pc = "baseline"
  /\ row.len = <<"3">>
  /\ row.d[1] = <<"0","A">> /\ row.d[2] = <<>> /\ row.d[3] = <<"F","f">>
  /\ data_bytes = <<10, 255>>

\* C10: the sleep asked for is max(0, Due - now), measured from the baseline:
\* a row whose due time has passed is sent without any sleep, a row ahead of
\* its due time sleeps to it, however late the frame before it was.
C10_WaitAgainstBaseline ==
  /\ pc \in {"sleep", "sleeping", "build", "send", "print"} =>
       /\ wait_time = Due(ts) - now
       /\ pc # "sleep" => (slept = (now < Due(ts)))
  /\ pc = "sleep" => now < Due(ts)
  /\ pc = "sleeping" => wake >= Due(ts)
  /\ (pc \in {"build", "send", "print"} /\ slept) => clock >= Due(ts)

\* the frame before went out late, and the current row sleeps up to its due time
C10_Witness ==
  /\ pc = "sleeping" /\ last # Unset
  /\ last[1].time > Due(last[1].ts)
  /\ wake = Due(ts)

====
